---- MODULE Spec2Model ----
(***************************************************************************)
(* The admin "Manage Users" page (web/src/app/admin/users/page.tsx):       *)
(* three components, UsersTables, SearchableTables and AddUserButton,      *)
(* sharing one SWR cache.  The state is the React state of the components  *)
(* (modal, showConfirmation, query, q, popup), the SWR cache entries of    *)
(* the keys the page uses, the bulk-invite submissions in flight and the   *)
(* server's invited-user set.                                              *)
(*                                                                         *)
(* A request of the cache is one flag, isValidating: its response is read  *)
(* from the backend in the step that completes it.  A bulk-invite          *)
(* submission is an element of subs from the submit to the step in which   *)
(* the backend answers and BulkAdd calls onSuccess or onFailure.           *)
(***************************************************************************)
EXTENDS Naturals, Sequences, FiniteSets, TLC

VARIABLES
    cloud,            \* NEXT_PUBLIC_CLOUD_ENABLED, fixed for the session
    cache,            \* SWR cache: key -> [data, error, isValidating]
    serverInvited,    \* the invited-user set the backend holds
    modal,            \* AddUserButton: useState(false)
    showConfirmation, \* AddUserButton: useState(false)
    popup,            \* usePopup: <<>> or <<[message, type]>>
    query,            \* SearchableTables: draft query
    q,                \* SearchableTables: committed query
    subs              \* bulk-invite submissions awaiting their response

vars == <<cloud, cache, serverInvited, modal, showConfirmation, popup,
          query, q, subs>>

----------------------------------------------------------------------------
(* Bounds and input domains *)

MaxInFlight == 2
MaxQueryLen == 3

Alphabet == {"a", "B"}

Emails == {"a@x.com"}
Details == {"domain not allowed"}
FetchErrors == {"fetch failed"}

----------------------------------------------------------------------------
(* Resource keys *)

INVITED_KEY == "/api/manage/users/invited"
DOMAINS_KEY == "/api/manage/admin/valid-domains"
PENDING_KEY == "/api/tenants/users/pending"
CURRENT_KEY == "/api/manage/users/accepted"
NullKey == "null"

Keys == {INVITED_KEY, DOMAINS_KEY, PENDING_KEY, CURRENT_KEY}

\* String.prototype.startsWith
StartsWith(s, p) == Len(s) >= Len(p) /\ SubSeq(s, 1, Len(p)) = p

\* a filter that matches every "/api" key
MutateFilterTooWide(key) == key # NullKey /\ StartsWith(key, "/api")

\* the filter onSuccess hands to mutate
MutateFilter(key) == key # NullKey /\ StartsWith(key, "/api/manage/users")

\* the pending-users key registered whatever the deployment
PendingKeyArgAlways(isCloud) == PENDING_KEY

\* the key argument of the pending-users useSWR
PendingKeyArg(isCloud) == IF isCloud THEN PENDING_KEY ELSE NullKey

----------------------------------------------------------------------------
(* Option values: <<>> is undefined, <<v>> is the value v *)

None == <<>>
Some(v) == <<v>>
IsSome(o) == o # <<>>

Inactive == [data |-> None, error |-> None, isValidating |-> FALSE]
Fetching == [data |-> None, error |-> None, isValidating |-> TRUE]

\* what the backend answers for a key
ServerData(k, invited) ==
    IF k = INVITED_KEY THEN invited
    ELSE IF k = DOMAINS_KEY THEN {"x.com"}
    ELSE IF k = PENDING_KEY THEN {"p@x.com"}
    ELSE {"u@x.com"}

----------------------------------------------------------------------------
(* UsersTables: what it returns *)

validDomains == cache[DOMAINS_KEY].data
domainsError == cache[DOMAINS_KEY].error

\* a gate that gives way to the error of the invited or the pending list too
GateViewAnyError(domains, domErr) ==
    IF ~IsSome(domains) THEN "ThreeDotsLoader"
    ELSE IF IsSome(domErr) \/ IsSome(cache[INVITED_KEY].error)
                           \/ IsSome(cache[PENDING_KEY].error) THEN "ErrorCallout"
    ELSE "Tabs"

\* a gate without the loading branch
GateViewNoLoader(domains, domErr) ==
    IF IsSome(domErr) THEN "ErrorCallout" ELSE "Tabs"

GateView(domains, domErr) ==
    IF ~IsSome(domains) THEN "ThreeDotsLoader"
    ELSE IF IsSome(domErr) THEN "ErrorCallout"
    ELSE "Tabs"

Rendered == GateView(validDomains, domainsError)

TabsFor(isCloud) ==
    {"current", "invited"} \cup (IF isCloud THEN {"pending"} ELSE {})

\* the tabs (triggers and contents) in the rendered tree
RenderedTabs == IF Rendered = "Tabs" THEN TabsFor(cloud) ELSE {}

\* the keys with a mounted useSWR hook
HeldKeys(c) ==
    {INVITED_KEY, DOMAINS_KEY}
        \cup ({PendingKeyArg(cloud)} \ {NullKey})
        \cup (IF GateView(c[DOMAINS_KEY].data, c[DOMAINS_KEY].error) = "Tabs"
              THEN {CURRENT_KEY} ELSE {})

----------------------------------------------------------------------------
(* SWR *)

\* a hook that mounts (or is told to revalidate) starts a request
StartFetch(c, ks) ==
    [k \in Keys |-> IF k \in ks THEN [c[k] EXCEPT !.isValidating = TRUE] ELSE c[k]]

\* hooks mounted by a render that were not mounted before start their request
Remount(old, new) == StartFetch(new, HeldKeys(new) \ HeldKeys(old))

\* a mutate that drops the matching entries' data while they reload
mutateClearing(c) ==
    [k \in Keys |-> IF k \in HeldKeys(c) /\ MutateFilter(k)
                    THEN [data |-> None, error |-> None, isValidating |-> TRUE]
                    ELSE c[k]]

\* a mutate that starts no request
mutateNothing(c) == c

\* mutate(filter): revalidate every held key the filter matches
mutate(c) == StartFetch(c, {k \in HeldKeys(c) : MutateFilter(k)})

----------------------------------------------------------------------------
Init ==
    /\ cloud \in BOOLEAN
    /\ cache = [k \in Keys |->
                  IF k \in {INVITED_KEY, DOMAINS_KEY, PendingKeyArg(cloud)}
                  THEN Fetching ELSE Inactive]
    /\ serverInvited \in SUBSET Emails
    /\ modal = FALSE
    /\ showConfirmation = FALSE
    /\ popup = None
    /\ query = ""
    /\ q = ""
    /\ subs = <<>>

FetchSucceed(k) ==
    /\ cache[k].isValidating
    /\ LET done == [cache EXCEPT ![k] = [data |-> Some(ServerData(k, serverInvited)),
                                         error |-> None,
                                         isValidating |-> FALSE]]
       IN cache' = Remount(cache, done)
    /\ UNCHANGED <<cloud, serverInvited, modal, showConfirmation, popup, query, q, subs>>

FetchFail(k) ==
    /\ cache[k].isValidating
    /\ \E e \in FetchErrors :
         LET done == [cache EXCEPT ![k] = [data |-> cache[k].data,
                                           error |-> Some(e),
                                           isValidating |-> FALSE]]
         IN cache' = Remount(cache, done)
    /\ UNCHANGED <<cloud, serverInvited, modal, showConfirmation, popup, query, q, subs>>

\* revalidateOnFocus / revalidateOnReconnect: every mounted hook revalidates
Revalidate ==
    /\ \E k \in HeldKeys(cache) : ~cache[k].isValidating
    /\ cache' = StartFetch(cache, HeldKeys(cache))
    /\ UNCHANGED <<cloud, serverInvited, modal, showConfirmation, popup, query, q, subs>>

----------------------------------------------------------------------------------------------------------------------------------------
(* The backend *)

\* an invited user signs up or is revoked
InvitedUserLeaves ==
    /\ \E u \in serverInvited : serverInvited' = serverInvited \ {u}
    /\ UNCHANGED <<cloud, cache, modal, showConfirmation, popup, query, q, subs>>

----------------------------------------------------------------------------
(* SearchableTables *)

\* a search bar that filters as the user types
KeystrokeLive ==
    /\ \/ \E ch \in Alphabet : Len(query) < MaxQueryLen /\ query' = query \o ch
       \/ Len(query) > 0 /\ query' = SubSeq(query, 1, Len(query) - 1)
    /\ q' = query'
    /\ UNCHANGED <<cloud, cache, serverInvited, modal, showConfirmation, popup, subs>>

\* SearchBar: setQuery with the text field's new value (a character typed
\* or the last one deleted)
Keystroke ==
    /\ \/ \E ch \in Alphabet : Len(query) < MaxQueryLen /\ query' = query \o ch
       \/ Len(query) > 0 /\ query' = SubSeq(query, 1, Len(query) - 1)
    /\ UNCHANGED <<cloud, cache, serverInvited, modal, showConfirmation, popup, q, subs>>

\* SearchBar: onSearch
onSearch ==
    /\ q' = query
    /\ UNCHANGED <<cloud, cache, serverInvited, modal, showConfirmation, popup, query, subs>>

\* usePopup: the popup is taken down after its display time
PopupExpires ==
    /\ IsSome(popup)
    /\ popup' = None
    /\ UNCHANGED <<cloud, cache, serverInvited, modal, showConfirmation, query, q, subs>>

----------------------------------------------------------------------------
(* AddUserButton *)

invitedUsers == cache[INVITED_KEY].data

\* a gate that forgets the deployment flag
FirstInviteGateAnyTenant(isCloud, invited) ==
    IsSome(invited) /\ Cardinality(invited[1]) = 0

\* a gate that takes an unknown invited list for an empty one
FirstInviteGateUnknownAsEmpty(isCloud, invited) ==
    ~isCloud /\ (~IsSome(invited) \/ Cardinality(invited[1]) = 0)

\* the condition of handleInviteClick
FirstInviteGate(isCloud, invited) ==
    ~isCloud /\ IsSome(invited) /\ Cardinality(invited[1]) = 0

handleInviteClick ==
    /\ IF FirstInviteGate(cloud, invitedUsers)
       THEN showConfirmation' = TRUE /\ UNCHANGED modal
       ELSE modal' = TRUE /\ UNCHANGED showConfirmation
    /\ UNCHANGED <<cloud, cache, serverInvited, popup, query, q, subs>>

handleConfirmFirstInvite ==
    /\ showConfirmation
    /\ showConfirmation' = FALSE
    /\ modal' = TRUE
    /\ UNCHANGED <<cloud, cache, serverInvited, popup, query, q, subs>>

\* a dismissal that goes on to the modal
onCloseConfirmationOpens ==
    /\ showConfirmation
    /\ showConfirmation' = FALSE
    /\ modal' = TRUE
    /\ UNCHANGED <<cloud, cache, serverInvited, popup, query, q, subs>>

\* ConfirmEntityModal onClose
onCloseConfirmation ==
    /\ showConfirmation
    /\ showConfirmation' = FALSE
    /\ UNCHANGED <<cloud, cache, serverInvited, modal, popup, query, q, subs>>

\* unmounting BulkAdd leaves its submissions in flight, no longer its own
Disown(ss) == [i \in DOMAIN ss |-> [ss[i] EXCEPT !.own = FALSE]]

Remove(ss, i) == [j \in 1..(Len(ss) - 1) |-> IF j < i THEN ss[j] ELSE ss[j + 1]]

\* Modal onOutsideClick
onOutsideClick ==
    /\ modal
    /\ modal' = FALSE
    /\ subs' = Disown(subs)
    /\ UNCHANGED <<cloud, cache, serverInvited, showConfirmation, popup, query, q>>

\* a form that stays enabled while its submission is awaited
CanSubmitAlways(isOpen, ss) == isOpen

\* BulkAdd takes a submission: it is mounted and has none awaiting its response
CanSubmit(isOpen, ss) == isOpen /\ \A i \in DOMAIN ss : ~ss[i].own

\* BulkAdd: the form is submitted with a list of emails
Submit ==
    /\ CanSubmit(modal, subs)
    /\ Len(subs) < MaxInFlight
    /\ \E es \in (SUBSET Emails) \ {{}} :
         subs' = Append(subs, [own |-> TRUE, emails |-> es])
    /\ UNCHANGED <<cloud, cache, serverInvited, modal, showConfirmation, popup, query, q>>

\* a failure message without the server's detail
FailurePopupNoDetail(error) == [message |-> "Failed to invite users", type |-> "error"]

SuccessPopup == [message |-> "Users invited!", type |-> "success"]
FailurePopup(error) == [message |-> "Failed to invite users - " \o error, type |-> "error"]

\* an onSuccess that does nothing once its modal is gone
onSuccessIfOpen ==
    IF modal
    THEN cache' = mutate(cache) /\ modal' = FALSE /\ popup' = Some(SuccessPopup)
    ELSE UNCHANGED <<cache, modal, popup>>

\* an onSuccess whose notification is put behind the one on display
onSuccessQueues ==
    /\ cache' = mutate(cache)
    /\ modal' = FALSE
    /\ popup' = Append(popup, SuccessPopup)

onSuccess ==
    /\ cache' = mutate(cache)
    /\ modal' = FALSE
    /\ popup' = Some(SuccessPopup)

\* an onFailure that closes the modal as onSuccess does
onFailureCloses(error) ==
    /\ popup' = Some(FailurePopup(error))
    /\ modal' = FALSE
    /\ UNCHANGED cache

onFailure(error) ==
    /\ popup' = Some(FailurePopup(error))
    /\ UNCHANGED <<cache, modal>>

\* the backend accepts submission i and BulkAdd calls onSuccess
InviteSucceeds(i) ==
    /\ serverInvited' = serverInvited \cup subs[i].emails
    /\ onSuccess
    /\ subs' = Disown(Remove(subs, i))
    /\ UNCHANGED <<cloud, showConfirmation, query, q>>

\* the backend rejects submission i with a detail and BulkAdd calls onFailure
InviteFails(i, detail) ==
    /\ onFailure(detail)
    /\ subs' = Remove(subs, i)
    /\ UNCHANGED <<cloud, serverInvited, showConfirmation, query, q>>

----------------------------------------------------------------------------
SearchNext ==
    \/ Keystroke
    \/ onSearch

UsersNext ==
    \/ \E k \in Keys : FetchSucceed(k)
    \/ \E k \in Keys : FetchFail(k)
    \/ Revalidate
    \/ InvitedUserLeaves
    \/ PopupExpires
    \/ handleInviteClick
    \/ handleConfirmFirstInvite
    \/ onCloseConfirmation
    \/ onOutsideClick
    \/ Submit
    \/ \E i \in DOMAIN subs : InviteSucceeds(i)
    \/ \E i \in DOMAIN subs, d \in Details : InviteFails(i, d)

Next == SearchNext \/ UsersNext

\* the whole page
Spec == Init /\ [][Next]_vars

\* SearchableTables' own state: no other handler reads or writes query and q
SearchSpec == Init /\ [][SearchNext]_vars

\* AddUserButton, UsersTables, the cache and the backend: none of their
\* handlers reads or writes query and q
UsersSpec == Init /\ [][UsersNext]_vars

\* a request of the cache ends: its fetcher's promise resolves or rejects
FetchEnds(k) == FetchSucceed(k) \/ FetchFail(k)

\* UsersSpec with every started request for the invited list ending
FairUsersSpec == UsersSpec /\ WF_vars(FetchEnds(INVITED_KEY))

----------------------------------------------------------------------------
(* UsersTables: the props of the three tables *)

\* data || []
OrEmpty(data) == IF IsSome(data) THEN data[1] ELSE {}

\* SWR: isLoading is a request in flight with no data yet
IsLoading(entry) == entry.isValidating /\ ~IsSome(entry.data)

SignedUpUserTableProps ==
    [invitedUsers |-> OrEmpty(cache[INVITED_KEY].data), q |-> q]

InvitedUserTableProps ==
    [users |-> OrEmpty(cache[INVITED_KEY].data),
     error |-> cache[INVITED_KEY].error,
     isLoading |-> IsLoading(cache[INVITED_KEY]),
     q |-> q]

PendingUsersTableProps ==
    [users |-> OrEmpty(cache[PENDING_KEY].data),
     error |-> cache[PENDING_KEY].error,
     isLoading |-> IsLoading(cache[PENDING_KEY]),
     q |-> q]
----------------------------------------------------------------------------
(* Workflow states of AddUserButton and helpers of the properties *)

Idle == ~modal /\ ~showConfirmation
ConfirmingFirstInvite == showConfirmation /\ ~modal
OwnInFlight == {i \in DOMAIN subs : subs[i].own}

\* String.prototype.includes
Contains(s, part) ==
    \E k \in 1..(Len(s) - Len(part) + 1) : SubSeq(s, k, k + Len(part) - 1) = part

\* the users-namespace keys with a mounted hook
HeldUsersKeys == HeldKeys(cache) \cap {INVITED_KEY, CURRENT_KEY}

----------------------------------------------------------------------------
(* C1: on a successful bulk-invite submission the modal closes, a success  *)
(* notification is emitted, and the invited-users entry, the current-users *)
(* entry and, in multi-tenant mode, the tenant pending-users entry are all *)
(* invalidated and refetched.  As stated: every one of those entries that  *)
(* has a mounted hook has a request in flight after onSuccess.             *)
C1_AllThreeRefetched ==
    [][\A i \in DOMAIN subs :
         InviteSucceeds(i) =>
            /\ ~modal'
            /\ popup' = Some([message |-> "Users invited!", type |-> "success"])
            /\ \A k \in HeldKeys(cache) \cap {INVITED_KEY, CURRENT_KEY, PENDING_KEY} :
                  cache'[k].isValidating]_vars

(* C1, amended: on a successful bulk-invite submission the modal closes, a *)
(* success notification is emitted, and the held entries under             *)
(* "/api/manage/users" (invited users, current users) are refetched; the   *)
(* tenant pending-users entry, keyed "/api/tenants/users/pending", is     *)
(* left as it was, in multi-tenant mode too.                               *)
C1_UsersKeysRefetched ==
    [][\A i \in DOMAIN subs :
         InviteSucceeds(i) =>
            /\ ~modal'
            /\ popup' = Some([message |-> "Users invited!", type |-> "success"])
            /\ \A k \in HeldUsersKeys : cache'[k].isValidating
            /\ cache'[PENDING_KEY] = cache[PENDING_KEY]]_vars

\* a multi-tenant page right after a success: the modal is closed, the success
\* popup is up, invited and current users reload, pending users do not
C1_Witness ==
    /\ cloud
    /\ ~modal
    /\ popup = Some(SuccessPopup)
    /\ cache[INVITED_KEY].isValidating /\ IsSome(cache[INVITED_KEY].data)
    /\ cache[CURRENT_KEY].isValidating /\ IsSome(cache[CURRENT_KEY].data)
    /\ ~cache[PENDING_KEY].isValidating /\ IsSome(cache[PENDING_KEY].data)

----------------------------------------------------------------------------
(* C2: whenever the valid-domains fetch has errored, the tabbed container  *)
(* is not rendered and the domain-error panel renders in its place, with   *)
(* or without stale valid-domains data.                                    *)
C2_DomainErrorShowsPanel ==
    IsSome(domainsError) => Rendered = "ErrorCallout" /\ RenderedTabs = {}

----------------------------------------------------------------------------
(* C3: activating the invite control from Idle opens the confirmation step *)
(* if and only if the deployment is not multi-tenant and the invited-user  *)
(* set is known and empty; in every other case it opens the bulk-add modal *)
(* and the confirmation is not shown.                                      *)
C3_GateDecidesFirstStep ==
    [][(Idle /\ handleInviteClick) =>
          /\ showConfirmation' <=> (~cloud /\ invitedUsers = Some({}))
          /\ modal' <=> ~showConfirmation']_vars

\* the confirmation step, entered on a single-tenant page whose invited list
\* is known and empty
C3_Witness ==
    /\ ConfirmingFirstInvite
    /\ ~cloud
    /\ invitedUsers = Some({})

----------------------------------------------------------------------------
(* C4: if the invited-users entry is still loading, its data not yet known,*)
(* when the invite control is activated, the confirmation step does not    *)
(* fire and the bulk-add modal opens directly.                             *)
C4_UnknownCountSkipsGate ==
    [][(Idle /\ ~IsSome(invitedUsers) /\ cache[INVITED_KEY].isValidating
          /\ handleInviteClick)
       => modal' /\ ~showConfirmation']_vars

\* a single-tenant page with the modal open while the invited list has never
\* arrived (the data of an entry never goes back to undefined)
C4_Witness ==
    /\ ~cloud
    /\ modal /\ ~showConfirmation
    /\ ~IsSome(invitedUsers) /\ cache[INVITED_KEY].isValidating
    /\ serverInvited = {}

----------------------------------------------------------------------------
(* C5: from the confirmation step, confirming closes the confirmation and  *)
(* opens the bulk-add modal; dismissing closes the confirmation and        *)
(* returns to Idle with no modal, no notification and no invalidation.     *)
C5_ConfirmOrDismiss ==
    [][ConfirmingFirstInvite =>
          /\ handleConfirmFirstInvite => (~showConfirmation' /\ modal')
          /\ onCloseConfirmation =>
                (Idle' /\ popup' = popup /\ cache' = cache /\ subs' = subs)]_vars

\* the confirmation step with nothing else going on: both ways out are taken
\* from here
C5_Witness ==
    /\ ConfirmingFirstInvite
    /\ popup = None
    /\ subs = <<>>
    /\ ~cache[INVITED_KEY].isValidating

----------------------------------------------------------------------------
(* C6: on a failing bulk-invite submission the modal remains open, an      *)
(* error notification containing the server-provided detail is emitted,    *)
(* and no cache entry is invalidated or refetched.                         *)
C6_FailureKeepsModal ==
    [][\A i \in DOMAIN subs, d \in Details :
         InviteFails(i, d) =>
            /\ modal' = modal
            /\ subs[i].own => modal'
            /\ IsSome(popup') /\ popup'[1].type = "error"
            /\ Contains(popup'[1].message, d)
            /\ cache' = cache]_vars

\* after a failure: the error popup with the detail is up, the modal is still
\* open and takes a new submission
C6_Witness ==
    /\ modal
    /\ IsSome(popup) /\ popup[1].type = "error"
    /\ Contains(popup[1].message, "domain not allowed")
    /\ OwnInFlight = {}

----------------------------------------------------------------------------
(* C7: no two invite submissions are in flight at once from the same modal *)
(* instance: while one awaits its response a second cannot be started.     *)
C7_OneSubmissionPerModal ==
    /\ Cardinality(OwnInFlight) <= 1
    /\ OwnInFlight # {} => modal

\* a submission of the open modal awaits its response, with room left in the
\* model for another
C7_Witness ==
    /\ modal
    /\ Cardinality(OwnInFlight) = 1
    /\ Len(subs) < MaxInFlight
    /\ ~ENABLED Submit

----------------------------------------------------------------------------
(* C8: if the multi-tenant flag is false, the pending-users key is never   *)
(* registered or fetched and the Pending tab and its view never render.    *)
C8_NoPendingWhenSingleTenant ==
    ~cloud =>
        /\ cache[PENDING_KEY] = Inactive
        /\ PENDING_KEY \notin HeldKeys(cache)
        /\ "pending" \notin RenderedTabs

\* a single-tenant page with its tabs rendered after an invite went through
C8_Witness ==
    /\ ~cloud
    /\ Rendered = "Tabs"
    /\ RenderedTabs = {"current", "invited"}
    /\ popup = Some(SuccessPopup)
    /\ cache[PENDING_KEY] = Inactive

----------------------------------------------------------------------------
(* C9: the committed query changes only on a search submission, when it    *)
(* becomes the current draft; keystrokes leave it unchanged.               *)
C9_CommitOnlyOnSearch ==
    [][/\ Keystroke => q' = q
       /\ q' # q => (q' = query /\ query' = query)]_vars

\* a query was committed and the draft has since been edited away from it
C9_Witness ==
    /\ q = "aB"
    /\ query = "a"

----------------------------------------------------------------------------
(* C10: invalidation starts a background refetch of each matching held key *)
(* without clearing or altering its data: while an entry is refetching its *)
(* data and error stay those of the previous fetch, and they change only   *)
(* when a fetch completes.                                                 *)
C10_StaleWhileRevalidate ==
    [][\A k \in Keys :
         (cache'[k].data # cache[k].data \/ cache'[k].error # cache[k].error)
            => (cache[k].isValidating /\ ~cache'[k].isValidating)]_vars

\* after an invite the invited-users entry reloads while still showing the
\* list from before the invite
C10_Witness ==
    /\ popup = Some(SuccessPopup)
    /\ cache[INVITED_KEY].isValidating
    /\ cache[INVITED_KEY].data = Some({})
    /\ serverInvited # {}

----------------------------------------------------------------------------
(* C11: after a successful invite every invalidated key is refetched:     *)
(* each held users key has a request in flight from onSuccess on, the      *)
(* backend holds the new invitations, the invited-users request ends, and  *)
(* a request that ends with a response leaves the entry holding the        *)
(* backend's data as it is then; until then the entry keeps the data it    *)
(* had.                                                                    *)
C11_InvalidatedKeysRefetched ==
    /\ [][\A i \in DOMAIN subs :
            InviteSucceeds(i) =>
               /\ \A k \in HeldUsersKeys : cache'[k].isValidating
               /\ cache'[INVITED_KEY].data = cache[INVITED_KEY].data
               /\ subs[i].emails \subseteq serverInvited']_vars
    /\ [][\A k \in Keys :
            (cache[k].isValidating /\ ~cache'[k].isValidating /\ ~IsSome(cache'[k].error))
               => cache'[k].data = Some(ServerData(k, serverInvited))]_vars
    /\ cache[INVITED_KEY].isValidating ~> ~cache[INVITED_KEY].isValidating

\* the refetch after an invite has ended and the cached invited list is the
\* backend's, with the new invitation in it
C11_Witness ==
    /\ popup = Some(SuccessPopup)
    /\ ~cache[INVITED_KEY].isValidating
    /\ ~IsSome(cache[INVITED_KEY].error)
    /\ cache[INVITED_KEY].data = Some(serverInvited)
    /\ serverInvited = {"a@x.com"}
    /\ subs = <<>>

----------------------------------------------------------------------------
(* C12: on a single-tenant deployment the first-invite confirmation is     *)
(* one-time: once a bulk-invite submission has succeeded, activating the   *)
(* invite control again opens the bulk-add modal directly and does not     *)
(* re-enter the confirmation step.  As stated, for an activation made      *)
(* while the success notification of that submission is still up.          *)
C12_ConfirmationOneTime ==
    [][(~cloud /\ popup = Some(SuccessPopup) /\ Idle /\ handleInviteClick)
       => (modal' /\ ~showConfirmation')]_vars

(* C12, amended: the confirmation is not one-time but decided anew from    *)
(* the cached invited list: after a successful submission, activating the  *)
(* invite control from Idle on a single-tenant deployment opens the modal  *)
(* directly when the cached list is unknown or non-empty, and re-enters    *)
(* the confirmation when the cached list is empty, which it is until the   *)
(* refetch started by onSuccess delivers the new list, and again once      *)
(* every invited user has left.                                            *)
C12_ConfirmationFollowsCache ==
    [][(~cloud /\ popup = Some(SuccessPopup) /\ Idle /\ handleInviteClick)
       => /\ showConfirmation' <=> (IsSome(invitedUsers) /\ invitedUsers[1] = {})
          /\ modal' <=> ~(IsSome(invitedUsers) /\ invitedUsers[1] = {})
          /\ (invitedUsers = Some(serverInvited) /\ serverInvited # {}) => modal']_vars

\* the confirmation is up again although the invite went through and the
\* backend holds an invited user: the cache still has the empty list
C12_Witness ==
    /\ ~cloud
    /\ ConfirmingFirstInvite
    /\ popup = Some(SuccessPopup)
    /\ serverInvited # {}
    /\ invitedUsers = Some({})
    /\ cache[INVITED_KEY].isValidating
    /\ subs = <<>>

----------------------------------------------------------------------------
(* C13: there is at most one active notification at any time, every        *)
(* notification is of kind success or error, and a new notification       *)
(* replaces the previous one.                                              *)
C13_SingleKindTaggedPopup ==
    /\ [](Len(popup) <= 1
          /\ \A n \in DOMAIN popup : popup[n].type \in {"success", "error"})
    /\ [][/\ \A i \in DOMAIN subs :
               InviteSucceeds(i) => popup' = <<SuccessPopup>>
          /\ \A i \in DOMAIN subs, d \in Details :
               InviteFails(i, d) => (Len(popup') = 1 /\ popup'[1].type = "error")]_vars

\* a success notification on display while another submission still awaits
\* the answer whose notification will take its place
C13_Witness ==
    /\ popup = <<SuccessPopup>>
    /\ Len(subs) = 1
    /\ ~modal

----------------------------------------------------------------------------
(* C14: a fetch error on the invited-users or pending-users entry is       *)
(* scoped to its view: it is passed to that view's error prop only, and it *)
(* neither replaces the tabbed container nor keeps the sibling views from  *)
(* rendering; only the valid-domains gate decides the whole container.     *)
C14_ListErrorsStayInTheirView ==
    (IsSome(cache[INVITED_KEY].error) \/ IsSome(cache[PENDING_KEY].error)) =>
        /\ (IsSome(validDomains) /\ ~IsSome(domainsError)) =>
              (Rendered = "Tabs" /\ RenderedTabs = TabsFor(cloud))
        /\ Rendered # "Tabs" => (~IsSome(validDomains) \/ IsSome(domainsError))
        /\ InvitedUserTableProps.error = cache[INVITED_KEY].error
        /\ PendingUsersTableProps.error = cache[PENDING_KEY].error
        /\ "error" \notin DOMAIN SignedUpUserTableProps
        /\ SignedUpUserTableProps.invitedUsers = OrEmpty(cache[INVITED_KEY].data)

\* a multi-tenant page whose invited and pending lists both failed to load
\* and whose tabs are all rendered
C14_Witness ==
    /\ cloud
    /\ IsSome(cache[INVITED_KEY].error)
    /\ IsSome(cache[PENDING_KEY].error)
    /\ ~IsSome(cache[CURRENT_KEY].error)
    /\ Rendered = "Tabs"
    /\ RenderedTabs = {"current", "invited", "pending"}

----------------------------------------------------------------------------
(* C15: while the valid-domains data is absent and its fetch has not       *)
(* errored, only the loading indicator is rendered for the whole tabbed    *)
(* container and none of the three views is.                               *)
C15_LoaderWhileDomainsUnknown ==
    (~IsSome(validDomains) /\ ~IsSome(domainsError)) =>
        (Rendered = "ThreeDotsLoader" /\ RenderedTabs = {})

\* the valid-domains request is still out while the invited list has arrived
C15_Witness ==
    /\ ~IsSome(validDomains) /\ ~IsSome(domainsError)
    /\ cache[DOMAINS_KEY].isValidating
    /\ IsSome(cache[INVITED_KEY].data)
    /\ Rendered = "ThreeDotsLoader"

----------------------------------------------------------------------------
(* The invite workflow as the state machine of the specification *)

Submitting == OwnInFlight # {}

WorkflowState ==
    IF showConfirmation /\ modal THEN "ConfirmationAndModal"
    ELSE IF showConfirmation THEN "ConfirmingFirstInvite"
    ELSE IF modal /\ Submitting THEN "Submitting"
    ELSE IF modal THEN "ModalOpen"
    ELSE "Idle"

\* the workflow's own state: confirmation shown, modal shown, submission
\* of the mounted form in flight
Workflow == <<showConfirmation, modal, Submitting>>

ListedTransitions ==
    {<<"Idle", "ConfirmingFirstInvite">>, <<"Idle", "ModalOpen">>,
     <<"ConfirmingFirstInvite", "ModalOpen">>, <<"ConfirmingFirstInvite", "Idle">>,
     <<"ModalOpen", "Submitting">>,
     <<"Submitting", "Idle">>, <<"Submitting", "ModalOpen">>}

----------------------------------------------------------------------------
(* C16: the invite workflow's state changes only by the transitions listed *)
(* for the state machine: Idle to ConfirmingFirstInvite or ModalOpen,      *)
(* ConfirmingFirstInvite to ModalOpen or Idle, ModalOpen to Submitting,    *)
(* Submitting to Idle or ModalOpen.                                        *)
C16_OnlyListedTransitions ==
    [][Workflow' # Workflow =>
          <<WorkflowState, WorkflowState'>> \in ListedTransitions]_vars

(* C16, amended: the workflow's state changes only by its seven events,    *)
(* each from any state in which it can occur: activation shows the         *)
(* confirmation or else the modal and changes nothing else; confirm hides  *)
(* the confirmation and shows the modal; dismiss hides the confirmation;   *)
(* an outside click hides the modal and abandons its submission; submit    *)
(* puts the modal's one submission in flight; a success of any submission  *)
(* in flight hides the modal; a failure of the modal's own submission ends *)
(* it with the modal as it was.  Fetches, revalidations, the popup's expiry*)
(* and changes on the backend leave the workflow's state as it was.        *)
C16_OnlyWorkflowEvents ==
    [][/\ handleInviteClick =>
             \/ showConfirmation' /\ modal' = modal /\ Submitting' = Submitting
             \/ modal' /\ showConfirmation' = showConfirmation /\ Submitting' = Submitting
       /\ handleConfirmFirstInvite =>
             (~showConfirmation' /\ modal' /\ Submitting' = Submitting)
       /\ onCloseConfirmation =>
             (~showConfirmation' /\ modal' = modal /\ Submitting' = Submitting)
       /\ onOutsideClick =>
             (~modal' /\ ~Submitting' /\ showConfirmation' = showConfirmation)
       /\ Submit =>
             (~Submitting /\ Submitting' /\ modal' /\ showConfirmation' = showConfirmation)
       /\ \A i \in DOMAIN subs :
             InviteSucceeds(i) =>
                (~modal' /\ ~Submitting' /\ showConfirmation' = showConfirmation)
       /\ \A i \in DOMAIN subs, d \in Details :
             InviteFails(i, d) =>
                /\ modal' = modal /\ showConfirmation' = showConfirmation
                /\ Submitting' = (Submitting /\ ~subs[i].own)
       /\ ((\E k \in Keys : FetchEnds(k)) \/ Revalidate \/ InvitedUserLeaves \/ PopupExpires)
             => Workflow' = Workflow]_vars

\* the modal was closed by an outside click while its submission was out:
\* Idle, with that submission still awaiting its answer
C16_Witness ==
    /\ WorkflowState = "Idle"
    /\ Len(subs) = 1
    /\ ~subs[1].own
    /\ popup = None

----------------------------------------------------------------------------
(* C17: the first-invite confirmation and the bulk-add modal are never     *)
(* shown at the same time, after any sequence of activations, confirms,    *)
(* dismissals, outside clicks, submission results and refetches.           *)
C17_NeverBothShown == ~(showConfirmation /\ modal)

----------------------------------------------------------------------------
(* C18: if the bulk-add modal is dismissed by an outside click while a     *)
(* submission is in flight, the later result is still applied: a success   *)
(* invalidates the users keys and emits the success notification with the  *)
(* modal staying closed, a failure emits the error notification and does   *)
(* not reopen the modal.                                                   *)
C18_OrphanedResultApplied ==
    [][/\ \A i \in DOMAIN subs :
            (~subs[i].own /\ ~modal /\ InviteSucceeds(i)) =>
               /\ \A k \in HeldUsersKeys : cache'[k].isValidating
               /\ popup' = <<SuccessPopup>>
               /\ ~modal'
       /\ \A i \in DOMAIN subs, d \in Details :
            (~subs[i].own /\ ~modal /\ InviteFails(i, d)) =>
               /\ popup' = <<FailurePopup(d)>>
               /\ ~modal'
               /\ cache' = cache]_vars

\* the success of a submission whose modal had been dismissed has been
\* applied: no modal was open to close, yet the popup is up and the lists reload
C18_Witness ==
    /\ ~modal /\ ~showConfirmation
    /\ popup = <<SuccessPopup>>
    /\ cache[INVITED_KEY].isValidating /\ IsSome(cache[INVITED_KEY].data)
    /\ Len(subs) = 1 /\ ~subs[1].own

----------------------------------------------------------------------------
(* C19: a successful invite leaves the valid-domains entry unchanged and   *)
(* does not refetch it, so it never makes the tabbed container fall back   *)
(* to the loading indicator or the domain-error panel.                     *)
C19_DomainsUntouchedBySuccess ==
    [][\A i \in DOMAIN subs :
         InviteSucceeds(i) =>
            /\ cache'[DOMAINS_KEY] = cache[DOMAINS_KEY]
            /\ Rendered' = Rendered
            /\ ~MutateFilter(DOMAINS_KEY)]_vars

\* the tabs are rendered right after a success, with the valid-domains entry
\* at rest while the invited list reloads
C19_Witness ==
    /\ Rendered = "Tabs"
    /\ popup = <<SuccessPopup>>
    /\ cache[DOMAINS_KEY] = [data |-> Some({"x.com"}), error |-> None, isValidating |-> FALSE]
    /\ cache[INVITED_KEY].isValidating
    /\ cache[CURRENT_KEY].isValidating
====
